---- MODULE Spec2Model ----
(***************************************************************************)
(* Model of log10/load.py: the session manager (get_session_id,            *)
(* log10_session), the call recorder (log_async, run_async_in_thread),     *)
(* the interception wrapper (intercepting_decorator) and the               *)
(* instrumentation scanner (log10).                                        *)
(*                                                                         *)
(* One main thread drives the program (instrumentation passes, scoped      *)
(* sessions, calls of instrumented callables); every wrapper invocation    *)
(* spawns one worker thread, which interleaves freely with the main        *)
(* thread.  A callable wrapped k times gives k nested wrapper frames:      *)
(* frame k is the outermost wrapper, frame 1 calls the original callable.  *)
(*                                                                         *)
(* Scope of the model:                                                     *)
(*  - TARGET_SERVICE is one of the two recognised values;                  *)
(*  - the main thread enters and leaves scoped sessions and runs log10()   *)
(*    between calls, and starts a call once the worker threads of the      *)
(*    previous call have ended;                                            *)
(*  - threading.Thread(...).start() itself does not fail;                  *)
(*  - the busy-poll loop on an empty queue changes no state: a wrapper     *)
(*    that spins forever shows as a behaviour that stutters at "poll".     *)
(***************************************************************************)
EXTENDS Integers, Sequences, FiniteSets, TLC

\* ------------------------------------------------------------------ bounds
MaxPasses == 2        \* instrumentation passes the main thread may run
MaxCalls == 2         \* top-level calls of instrumented callables
MaxSessions == 3      \* session ids the backend hands out (1 is the import-time one)
MaxScopes == 2        \* nesting depth of "with log10_session()" blocks
RecursionLimit == 3   \* depth of nested intercept_class_methods calls the interpreter allows

MaxLayers == MaxPasses
Layers == 1..MaxLayers

\* ------------------------------------------------------------------ values
\* Python values that travel through the wrapper: integers, None, an object
\* json.dumps cannot serialise, a function object, and the receiver bound by
\* attribute access.
IntV(n) == [t |-> "int", v |-> n]
NoneV == [t |-> "none", v |-> 0]
ObjV == [t |-> "object", v |-> 0]
SelfV == [t |-> "self", v |-> 0]
ClsV == [t |-> "cls", v |-> 0]
\* another function object, with __module__ "other" and __qualname__ "g"
CallableV == [t |-> "callable", v |-> 0]

\* json.dumps raises TypeError on an object that is not JSON serialisable.
JsonSerializable(v) == v.t \in {"int", "none"}

\* json.dumps of a scalar: the JSON text, as a sequence of tokens.
JsonScalar(v) == IF v.t = "none" THEN "null" ELSE ToString(v.v)

JsonDumpsValue(v) == <<JsonScalar(v)>>

\* json.dumps of a dict, given as the sequence of its items in insertion order.
RECURSIVE JsonItems(_)
JsonItems(kw) ==
    IF kw = <<>> THEN <<>>
    ELSE <<kw[1].name, ":", JsonScalar(kw[1].val)>>
         \o (IF Len(kw) > 1 THEN <<",">> ELSE <<>>)
         \o JsonItems(Tail(kw))

JsonDumpsDict(kw) == <<"{">> \o JsonItems(kw) \o <<"}">>

DictSerializable(kw) == \A i \in 1..Len(kw) : JsonSerializable(kw[i].val)

\* ---------------------------------------------------------------- sessions
VARIABLES
    target_service,   \* TARGET_SERVICE: "log10" or "bigquery"
    sessionID,        \* the module global sessionID
    sessionsCreated,  \* session ids the backend has handed out so far
    scopes,           \* open "with log10_session()" blocks: the session id current before each entry
    mainOp            \* the last operation of the main thread: what it was, how it
                      \* went, what it raised to its caller, the session requests it sent

\* Mutant: the failure is swallowed and a value returned anyway.
GetSessionIdNeverRaises(answer) == FALSE

\* get_session_id: the value returned, given the backend's answer.
\* "ok" yields the id the backend created; anything else raises.
GetSessionIdRaises(answer) == answer # "ok"

GetSessionIdValue(answer, fresh) == fresh

\* log10_session.__enter__: the new value of the global.
SessionEnter(current, created) == created

\* Mutant: the exit restores the session id that was current before the entry.
SessionExitRestores(current, before) == before

\* log10_session.__exit__: the global after the block is left.
SessionExit(current, before) == current

\* log10_session.__exit__ returns None: a true value would suppress the exception.
SessionExitSuppresses == FALSE

\* get_session_id sends one POST /api/sessions and does not retry.
SessionRequestsPerCall == 1

sessionVars == <<sessionID, sessionsCreated, scopes>>

MainOp(op, how, exc, requests) ==
    [op |-> op, how |-> how, raised |-> exc, requests |-> requests]

\* --------------------------------------------------------- instrumentation
VARIABLES
    moduleShape,      \* which module log10() is applied to
    moduleDict,       \* vars(module): sequence of [name, val] in insertion order
    classDict,        \* vars(cls) of every class object, by class identity
    passes,           \* completed log10(module) passes
    scanRaised        \* whether the last log10(module) raised RecursionError

\* A member value: kind is "function", "classmethod", "staticmethod", "class"
\* or "data"; ref is the original callable (or the class identity); layers is
\* the number of intercepting wrappers around the original callable.
Member(kind, ref, layers) == [kind |-> kind, ref |-> ref, layers |-> layers]
Attr(name, val) == [name |-> name, val |-> val]

ClassIds == {"C", "D", "E", "Inner", "A", "H", "S", "P", "Q"}

\* The instrumented module: a top-level function, a class with an instance
\* method, a class with a classmethod and a static method, a class with a
\* nested class, and a data attribute.
BasicModule ==
    << Attr("add", Member("function", "add", 0)),
       Attr("C", Member("class", "C", 0)),
       Attr("D", Member("class", "D", 0)),
       Attr("E", Member("class", "E", 0)),
       Attr("VERSION", Member("data", "VERSION", 0)) >>

BasicClasses ==
    [c \in ClassIds |->
        CASE c = "C" -> << Attr("m", Member("function", "C.m", 0)),
                           Attr("x", Member("data", "C.x", 0)) >>
          [] c = "D" -> << Attr("cm", Member("classmethod", "D.cm", 0)),
                           Attr("sm", Member("staticmethod", "D.sm", 0)) >>
          [] c = "E" -> << Attr("Inner", Member("class", "Inner", 0)) >>
          [] c = "Inner" -> << Attr("n", Member("function", "E.Inner.n", 0)) >>
          [] OTHER -> << >>]

\* A module where one class object is bound to two top-level names
\* (class A: ...; B = A).
AliasedModule ==
    << Attr("A", Member("class", "A", 0)),
       Attr("B", Member("class", "A", 0)) >>

\* A module where one class object is a top-level attribute and also a
\* class attribute of another class (class H: A = A).
SharedModule ==
    << Attr("A", Member("class", "A", 0)),
       Attr("H", Member("class", "H", 0)) >>

AliasClasses ==
    [c \in ClassIds |->
        CASE c = "A" -> << Attr("m", Member("function", "A.m", 0)) >>
          [] c = "H" -> << Attr("A", Member("class", "A", 0)) >>
          [] OTHER -> << >>]

\* A module whose class holds itself as a class attribute (S.me = S), and
\* one whose two classes hold each other (P.q = Q; Q.p = P).
SelfRefModule == << Attr("S", Member("class", "S", 0)) >>

MutualModule == << Attr("P", Member("class", "P", 0)) >>

CyclicClasses ==
    [c \in ClassIds |->
        CASE c = "S" -> << Attr("f", Member("function", "S.f", 0)),
                           Attr("me", Member("class", "S", 0)) >>
          [] c = "P" -> << Attr("g", Member("function", "P.g", 0)),
                           Attr("q", Member("class", "Q", 0)) >>
          [] c = "Q" -> << Attr("h", Member("function", "Q.h", 0)),
                           Attr("p", Member("class", "P", 0)) >>
          [] OTHER -> << >>]

ModuleShapes == {"basic", "aliased", "shared", "selfref", "mutual"}

\* vars(module) and the class dictionaries of each module, before any pass.
ModuleOf(shape) ==
    CASE shape = "basic" -> BasicModule
      [] shape = "aliased" -> AliasedModule
      [] shape = "shared" -> SharedModule
      [] shape = "selfref" -> SelfRefModule
      [] shape = "mutual" -> MutualModule

ClassesOf(shape) ==
    CASE shape = "basic" -> BasicClasses
      [] shape \in {"aliased", "shared"} -> AliasClasses
      [] shape \in {"selfref", "mutual"} -> CyclicClasses

\* Mutant: a callable that is already intercepted is not wrapped again.
InterceptingDecoratorOnce(m) ==
    Member("function", m.ref, IF m.layers = 0 THEN 1 ELSE m.layers)

\* intercepting_decorator(func): a new function object around func.
InterceptingDecorator(m) == Member("function", m.ref, m.layers + 1)

\* classmethod(decorated_method)
AsClassmethod(m) == Member("classmethod", m.ref, m.layers)

\* method.__func__ of a classmethod object
ClassmethodFunc(m) == Member("function", m.ref, m.layers)

\* Mutant: static methods are intercepted as well.
InterceptMemberAlsoStatic(m) ==
    IF m.kind = "classmethod"
    THEN AsClassmethod(InterceptingDecorator(ClassmethodFunc(m)))
    ELSE IF m.kind \in {"function", "staticmethod"}
    THEN InterceptingDecorator(m)
    ELSE m

\* Mutant: the decorated classmethod is stored as a plain function.
InterceptMemberUnbound(m) ==
    IF m.kind \in {"classmethod", "function"}
    THEN InterceptingDecorator(ClassmethodFunc(m))
    ELSE m

\* The rebinding of one class member (lines 213-218); classes are handled by
\* the recursion below, everything else is left alone.
InterceptMember(m) ==
    IF m.kind = "classmethod"
    THEN AsClassmethod(InterceptingDecorator(ClassmethodFunc(m)))
    ELSE IF m.kind = "function"
    THEN InterceptingDecorator(m)
    ELSE m

SetAttr(cd, c, i, m) == [cd EXCEPT ![c][i].val = m]

\* intercept_class_methods(cls), from the i-th item of vars(cls) on.  The
\* items are read from the live dictionary.  fuel is the number of nested
\* calls the interpreter still allows; at 0 the call raises RecursionError.
RECURSIVE InterceptClassMethods(_, _, _, _)
InterceptClassMethods(cd, c, i, fuel) ==
    IF i > Len(cd[c]) THEN [cd |-> cd, err |-> FALSE]
    ELSE LET m == cd[c][i].val IN
         IF m.kind = "class"
         THEN IF fuel = 0 THEN [cd |-> cd, err |-> TRUE]
              ELSE LET r == InterceptClassMethods(cd, m.ref, 1, fuel - 1) IN
                   IF r.err THEN r
                   ELSE InterceptClassMethods(r.cd, c, i + 1, fuel)
         ELSE InterceptClassMethods(SetAttr(cd, c, i, InterceptMember(m)), c, i + 1, fuel)

\* The rebinding of one top-level attribute (lines 223-224).
InterceptTopLevel(m) ==
    IF m.kind = "function" THEN InterceptingDecorator(m) ELSE m

\* log10(module), from the i-th item of vars(module) on.
RECURSIVE Log10(_, _, _)
Log10(md, cd, i) ==
    IF i > Len(md) THEN [md |-> md, cd |-> cd, err |-> FALSE]
    ELSE LET m == md[i].val IN
         IF m.kind = "class"
         THEN LET r == InterceptClassMethods(cd, m.ref, 1, RecursionLimit) IN
              IF r.err THEN [md |-> md, cd |-> r.cd, err |-> TRUE]
              ELSE Log10(md, r.cd, i + 1)
         ELSE Log10([md EXCEPT ![i].val = InterceptTopLevel(m)], cd, i + 1)

scanVars == <<moduleShape, moduleDict, classDict, passes, scanRaised>>

\* ------------------------------------------------------------------- calls
VARIABLES
    call,             \* the current top-level call: path, arguments, layers
    calls,            \* top-level calls made so far
    entered,          \* per frame: the global sessionID when the wrapper was entered
    pc,               \* per wrapper frame: position of the main thread in wrapper()
    output,           \* per frame: the local variable output
    result_queue,     \* per frame: the queue.Queue created by this invocation
    completionID,     \* per frame: the local completionID read from the queue (0: unset)
    logged,           \* per frame: logging.error calls of the wrapper's handlers
    wpc,              \* per frame: position of the worker thread
    wcid,             \* per frame: completionID held by the worker (0: unset)
    sent,             \* per frame: the backend requests issued, in order
    fcall,            \* the executions of the original callable in this call
    result            \* what the top-level call gave its caller

callVars == <<call, calls, entered, pc, output, result_queue, completionID, logged,
              wpc, wcid, sent, fcall, result>>

vars == <<target_service, mainOp, sessionVars, scanVars, callVars>>

KwArg(name, val) == [name |-> name, val |-> val]

\* The argument lists a caller passes (positional, keyword).
ArgChoices ==
    { [args |-> <<IntV(2), IntV(3)>>, kwargs |-> <<>>],
      [args |-> <<IntV(2)>>, kwargs |-> <<KwArg("b", IntV(3))>>],
      [args |-> <<>>, kwargs |-> <<KwArg("a", ObjV)>>],
      [args |-> <<>>, kwargs |-> <<KwArg("func", CallableV)>>],
      [args |-> <<>>, kwargs |-> <<KwArg("result_queue", IntV(7))>>] }

\* The argument lists tried on a path: all of them on the top-level
\* function, the positional ones on the methods.
ArgChoicesFor(via) ==
    IF via = "module" THEN ArgChoices
    ELSE {a \in ArgChoices : a.kwargs = <<>>}

\* The ways a caller reaches a callable: the dictionary that holds it, its
\* name there, and whether it is looked up on the module, an instance or a class.
CallPaths ==
    { [owner |-> "module", name |-> "add", via |-> "module"],
      [owner |-> "C", name |-> "m", via |-> "instance"],
      [owner |-> "D", name |-> "cm", via |-> "class"],
      [owner |-> "Inner", name |-> "n", via |-> "instance"],
      [owner |-> "A", name |-> "m", via |-> "instance"],
      [owner |-> "S", name |-> "f", via |-> "instance"],
      [owner |-> "P", name |-> "g", via |-> "instance"],
      [owner |-> "Q", name |-> "h", via |-> "instance"] }

RECURSIVE Find(_, _)
Find(d, name) ==
    IF d = <<>> THEN Member("data", "missing", 0)
    ELSE IF d[1].name = name THEN d[1].val ELSE Find(Tail(d), name)

Lookup(md, cd, path) ==
    IF path.owner = "module" THEN Find(md, path.name) ELSE Find(cd[path.owner], path.name)

\* Attribute access binds the receiver: a function found on an instance gets
\* self, a classmethod gets the class, anything else gets nothing.
Bind(m, via, args) ==
    IF m.kind = "classmethod" /\ via # "module" THEN <<ClsV>> \o args
    ELSE IF m.kind = "function" /\ via = "instance" THEN <<SelfV>> \o args
    ELSE args

\* The receiver the original callable is written for.
Receiver(ref) ==
    CASE ref = "add" -> "none"
      [] ref = "C.m" -> "self"
      [] ref = "D.cm" -> "cls"
      [] ref = "E.Inner.n" -> "self"
      [] ref \in {"A.m", "S.f", "P.g", "Q.h"} -> "self"
      [] OTHER -> "none"

ReceiverOf(args) ==
    IF args # <<>> /\ args[1].t \in {"self", "cls"} THEN args[1].t ELSE "none"

RECURSIVE SumInts(_)
SumInts(s) ==
    IF s = <<>> THEN 0
    ELSE (IF s[1].t = "int" THEN s[1].v ELSE 0) + SumInts(Tail(s))

KwValues(kw) == [i \in 1..Len(kw) |-> kw[i].val]

\* What the original callable computes from its arguments.
FValue(a) == IntV(SumInts(a.args) + SumInts(KwValues(a.kwargs)))

\* The outcomes of running the original callable: it returns the value it
\* computes, returns an object json.dumps rejects, raises an Exception, or
\* raises a BaseException that is not an Exception (KeyboardInterrupt,
\* SystemExit).  Called with the wrong receiver it raises TypeError.
FOutcomes(ref, a) ==
    IF ReceiverOf(a.args) # Receiver(ref) THEN {"raise"}
    ELSE {"value", "object", "raise", "raise_base"}

FReturn(o, a) == IF o = "value" THEN FValue(a) ELSE ObjV

\* Mutant: the wrapper hands on the keyword arguments only.
WrapperCallKwargsOnly(a) == [args |-> <<>>, kwargs |-> a.kwargs]

\* Line 165: the arguments the wrapper hands to func.
WrapperCallArgs(a) == [args |-> a.args, kwargs |-> a.kwargs]

RECURSIVE ThroughLayers(_, _)
ThroughLayers(k, a) == IF k = 0 THEN a ELSE ThroughLayers(k - 1, WrapperCallArgs(a))

\* Lines 155-156: the keyword arguments of the worker thread,
\* {"completion_url": ..., "func": ..., "result_queue": ..., **kwargs}.
\* A caller's keyword of the same name replaces the wrapper's entry.
ReservedNames == {"completion_url", "func", "result_queue"}

Overridden(a, name) == \E i \in 1..Len(a.kwargs) : a.kwargs[i].name = name

\* func.__qualname__ as the worker sees func: the wrapped callable, unless a
\* caller's keyword named func replaced it.
WorkerFuncQualname(ref, a) == IF Overridden(a, "func") THEN "g" ELSE ref

WorkerFuncModule(a) == IF Overridden(a, "func") THEN "other" ELSE "mod"

\* Lines 115-117: what run_async_in_thread passes on as **kwargs.
LogKwargs(a) == SelectSeq(a.kwargs, LAMBDA kv : kv.name \notin ReservedNames)

\* A request to the backend: kind is "create" (POST /api/completions),
\* "started" or "finished" (POST /api/completions/<cid>), "bq_start" or
\* "bq_finish" (insert_rows_json); ok is FALSE when the request raised.
Row(kind, cid, ok, module, qualname, request, session, response) ==
    [kind |-> kind, cid |-> cid, ok |-> ok, orig_module |-> module,
     orig_qualname |-> qualname, request |-> request, session_id |-> session,
     response |-> response]

\* Mutant: the row carries the session id captured when the wrapper was entered.
StartedSessionAtEntry(current, atEntry) == atEntry

\* Line 94: "session_id": sessionID, the global read when the row is built.
StartedSessionId(current, atEntry) == current

\* Lines 88-96: log_row of the start phase; kwargs is what log_async received.
StartedRequest(kwargs) == JsonDumpsDict(kwargs)

\* Line 176: "response": json.dumps(output)
FinishedResponse(out) == JsonDumpsValue(out)

\* Line 150: output = None
OutputInit == NoneV

\* Mutant: the handler catches nothing the wrapped callable raises.
WrapperCatchesNothing(o) == FALSE

\* Line 195: "except Exception" catches an Exception, not a bare BaseException.
WrapperCatches(o) == o = "raise"

\* Mutant: the value is lost on the way out.
WrapperReturnsNone(out) == NoneV

\* Lines 195-198: the handler leaves output alone and the wrapper returns it.
WrapperReturnValue(out) == out

\* The completion id the backend creates for the n-th call's frame L: a
\* fresh one for every request.
BackendCompletionId(n, L) == (n - 1) * MaxLayers + L

\* Mutant: the wrapper goes on to the finish phase without waiting for the queue.
PcSkipsPoll == "finish"

\* Lines 165-172: once func has returned, the wrapper waits on its queue.
PcAfterCall == "poll"

\* Mutant: one queue shared by all invocations.
SharedQueue(L) == 1

\* Lines 151-156: every invocation creates its own queue.Queue and hands it
\* to its own worker thread; QueueOf(L) is the queue frame L and its worker use.
QueueOf(L) == L

\* Line 118: the queue after result_queue.put(result).
QueuePut(q, cid) == Append(q, cid)

Idle == result.st = "none"

WorkersQuiet == \A L \in Layers : wpc[L] \in {"idle", "done", "dead"}

Count(L, kind) == Cardinality({i \in 1..Len(sent[L]) : sent[L][i].kind = kind})

CallArgs == [args |-> call.args, kwargs |-> call.kwargs]

\* ----------------------------------------------------------------- initial
NoCall == [path |-> [owner |-> "module", name |-> "add", via |-> "module"],
           ref |-> "none", args |-> <<>>, kwargs |-> <<>>, layers |-> 0]

NoFCall == [n |-> 0, args |-> <<>>, kwargs |-> <<>>, outcome |-> "none"]

Init ==
    /\ target_service \in {"log10", "bigquery"}
    /\ sessionID = 1
    /\ sessionsCreated = 1
    /\ scopes = <<>>
    /\ mainOp = MainOp("import", "ok", "none", SessionRequestsPerCall)
    /\ moduleShape \in ModuleShapes
    /\ moduleDict = ModuleOf(moduleShape)
    /\ classDict = ClassesOf(moduleShape)
    /\ passes = 0
    /\ scanRaised = FALSE
    /\ call = NoCall
    /\ calls = 0
    /\ entered = [L \in Layers |-> 0]
    /\ pc = [L \in Layers |-> "idle"]
    /\ output = [L \in Layers |-> OutputInit]
    /\ result_queue = [L \in Layers |-> <<>>]
    /\ completionID = [L \in Layers |-> 0]
    /\ logged = [L \in Layers |-> 0]
    /\ wpc = [L \in Layers |-> "idle"]
    /\ wcid = [L \in Layers |-> 0]
    /\ sent = [L \in Layers |-> <<>>]
    /\ fcall = NoFCall
    /\ result = [st |-> "none", val |-> NoneV]

\* ---------------------------------------------------------------- sessions
\* log10_session.__enter__ (lines 58-60) around get_session_id (lines 40-50).
EnterSession ==
    /\ Idle
    /\ Len(scopes) < MaxScopes
    /\ sessionsCreated < MaxSessions
    /\ \E answer \in {"ok", "unreachable", "invalid_payload"} :
         IF GetSessionIdRaises(answer)
            THEN /\ mainOp' = MainOp("enter", answer, "SessionCreationError",
                                     SessionRequestsPerCall)
                 /\ UNCHANGED <<sessionID, sessionsCreated, scopes>>
            ELSE /\ mainOp' = MainOp("enter", answer, "none", SessionRequestsPerCall)
                 /\ sessionsCreated' = sessionsCreated + 1
                 /\ sessionID' = SessionEnter(sessionID,
                                   GetSessionIdValue(answer, sessionsCreated + 1))
                 /\ scopes' = Append(scopes, sessionID)
    /\ UNCHANGED <<target_service, scanVars, callVars>>

\* log10_session.__exit__ (lines 62-63), the block left normally or by an
\* exception raised in its body.
ExitSession ==
    /\ Idle
    /\ scopes # <<>>
    /\ \E how \in {"normal", "exception"} :
         mainOp' = MainOp("exit", how,
                          IF how = "exception" /\ ~SessionExitSuppresses
                          THEN "BodyException" ELSE "none", 0)
    /\ sessionID' = SessionExit(sessionID, scopes[Len(scopes)])
    /\ scopes' = SubSeq(scopes, 1, Len(scopes) - 1)
    /\ UNCHANGED <<target_service, sessionsCreated, scanVars, callVars>>

\* Another thread enters a scoped session (lines 58-60) while a call of the
\* main thread is in flight, once per call; its with-block is its own, the
\* global is shared.
OtherThreadEntersSession ==
    /\ result.st = "pending"
    /\ entered[call.layers] = sessionID
    /\ sessionsCreated < MaxSessions
    /\ sessionsCreated' = sessionsCreated + 1
    /\ sessionID' = SessionEnter(sessionID, GetSessionIdValue("ok", sessionsCreated + 1))
    /\ UNCHANGED <<target_service, mainOp, scopes, scanVars, callVars>>

\* --------------------------------------------------------- instrumentation
\* log10(module) (lines 203-226), the whole pass.
Instrument ==
    /\ Idle
    /\ passes < MaxPasses
    /\ LET r == Log10(moduleDict, classDict, 1) IN
         /\ moduleDict' = r.md
         /\ classDict' = r.cd
         /\ scanRaised' = r.err
         /\ mainOp' = MainOp("instrument", "pass",
                             IF r.err THEN "RecursionError" ELSE "none", 0)
    /\ passes' = passes + 1
    /\ moduleShape' = moduleShape
    /\ UNCHANGED <<target_service, sessionVars, callVars>>

\* ------------------------------------------------------------------- calls
\* The main thread calls an instrumented callable: the outermost wrapper is entered.
Call ==
    /\ Idle
    /\ WorkersQuiet
    /\ calls < MaxCalls
    /\ \E path \in CallPaths : \E a \in ArgChoicesFor(path.via) :
         LET m == Lookup(moduleDict, classDict, path) IN
         /\ m.kind \in {"function", "classmethod"}
         /\ m.layers \in Layers
         /\ call' = [path |-> path, ref |-> m.ref,
                     args |-> Bind(m, path.via, a.args), kwargs |-> a.kwargs,
                     layers |-> m.layers]
         /\ pc' = [L \in Layers |-> IF L = m.layers THEN "spawn" ELSE "idle"]
         /\ entered' = [L \in Layers |-> IF L = m.layers THEN sessionID ELSE 0]
    /\ calls' = calls + 1
    /\ output' = [L \in Layers |-> OutputInit]
    /\ result_queue' = [L \in Layers |-> <<>>]
    /\ completionID' = [L \in Layers |-> 0]
    /\ logged' = [L \in Layers |-> 0]
    /\ wpc' = [L \in Layers |-> "idle"]
    /\ wcid' = [L \in Layers |-> 0]
    /\ sent' = [L \in Layers |-> <<>>]
    /\ fcall' = NoFCall
    /\ result' = [st |-> "pending", val |-> NoneV]
    /\ mainOp' = MainOp("call", "call", "none", 0)
    /\ UNCHANGED <<target_service, sessionVars, scanVars>>

\* The call is over and its worker threads have ended: the main thread goes on.
Forget ==
    /\ result.st \in {"returned", "propagated"}
    /\ WorkersQuiet
    /\ call' = NoCall
    /\ entered' = [L \in Layers |-> 0]
    /\ pc' = [L \in Layers |-> "idle"]
    /\ output' = [L \in Layers |-> OutputInit]
    /\ result_queue' = [L \in Layers |-> <<>>]
    /\ completionID' = [L \in Layers |-> 0]
    /\ logged' = [L \in Layers |-> 0]
    /\ wpc' = [L \in Layers |-> "idle"]
    /\ wcid' = [L \in Layers |-> 0]
    /\ sent' = [L \in Layers |-> <<>>]
    /\ fcall' = NoFCall
    /\ result' = [st |-> "none", val |-> NoneV]
    /\ UNCHANGED <<target_service, mainOp, sessionVars, scanVars, calls>>

\* Lines 149-156: the wrapper creates its queue and starts the worker thread.
WrapperSpawn(L) ==
    /\ pc[L] = "spawn"
    /\ pc' = [pc EXCEPT ![L] = "call"]
    /\ wpc' = [wpc EXCEPT ![L] = "create"]
    /\ UNCHANGED <<target_service, mainOp, sessionVars, scanVars, call, calls, entered, output,
                   result_queue, completionID, logged, wcid, sent,
                   fcall, result>>

\* The wrapper of frame L returns v: to the wrapper around it, which goes on
\* to line 166, or to the caller of the top-level call.
Return(L, v) ==
    IF L = call.layers
    THEN /\ pc' = [pc EXCEPT ![L] = "returned"]
         /\ result' = [st |-> "returned", val |-> v]
         /\ output' = output
    ELSE /\ pc' = [pc EXCEPT ![L] = "returned", ![L + 1] = PcAfterCall]
         /\ output' = [output EXCEPT ![L + 1] = v]
         /\ result' = result

\* A BaseException leaves every wrapper on the stack.
Propagate ==
    /\ pc' = [L \in Layers |-> IF pc[L] = "idle" THEN "idle" ELSE "propagated"]
    /\ result' = [st |-> "propagated", val |-> NoneV]
    /\ mainOp' = MainOp("call", "call", "BaseException", 0)
    /\ output' = output

\* Line 165 in a wrapper around another wrapper: the inner wrapper is entered.
WrapperCallInner(L) ==
    /\ pc[L] = "call"
    /\ L > 1
    /\ pc' = [pc EXCEPT ![L] = "incall", ![L - 1] = "spawn"]
    /\ entered' = [entered EXCEPT ![L - 1] = sessionID]
    /\ UNCHANGED <<target_service, mainOp, sessionVars, scanVars, call, calls, output,
                   result_queue, completionID, logged, wpc, wcid, sent,
                   fcall, result>>

\* Line 165 in the innermost wrapper: the original callable runs.
WrapperCallOriginal ==
    /\ pc[1] = "call"
    /\ LET a == ThroughLayers(call.layers, CallArgs) IN
       \E o \in FOutcomes(call.ref, a) :
         /\ fcall' = [n |-> fcall.n + 1, args |-> a.args, kwargs |-> a.kwargs,
                      outcome |-> o]
         /\ IF o \in {"value", "object"}
            THEN /\ output' = [output EXCEPT ![1] = FReturn(o, a)]
                 /\ pc' = [pc EXCEPT ![1] = PcAfterCall]
                 /\ UNCHANGED <<logged, result, mainOp>>
            ELSE IF WrapperCatches(o)
            THEN /\ logged' = [logged EXCEPT ![1] = @ + 1]
                 /\ Return(1, WrapperReturnValue(output[1]))
                 /\ UNCHANGED mainOp
            ELSE /\ Propagate
                 /\ UNCHANGED logged
    /\ UNCHANGED <<target_service, sessionVars, scanVars, call, calls, entered, result_queue,
                   completionID, wpc, wcid, sent>>

\* Lines 170-172: the busy-poll loop ends once the queue holds an item.
WrapperPoll(L) ==
    /\ pc[L] = "poll"
    /\ result_queue[QueueOf(L)] # <<>>
    /\ completionID' = [completionID EXCEPT ![L] = Head(result_queue[QueueOf(L)])]
    /\ result_queue' = [result_queue EXCEPT ![QueueOf(L)] = Tail(@)]
    /\ pc' = [pc EXCEPT ![L] = "finish"]
    /\ UNCHANGED <<target_service, mainOp, sessionVars, scanVars, call, calls, entered, output,
                   logged, wpc, wcid, sent, fcall, result>>

\* Lines 174-198: the finish phase and the return.  json.dumps(output) raises
\* on an unserialisable output and json.dumps(stacktrace) may raise
\* RecursionError near the recursion limit; the request may raise.
WrapperFinish(L) ==
    /\ pc[L] = "finish"
    /\ IF ~JsonSerializable(output[L])
       THEN /\ logged' = [logged EXCEPT ![L] = @ + 1]
            /\ sent' = sent
       ELSE \E answer \in {"ok", "error", "stack_error"} :
            /\ logged' = [logged EXCEPT ![L] = IF answer = "ok" THEN @ ELSE @ + 1]
            /\ sent' = IF answer = "stack_error" THEN sent
                       ELSE [sent EXCEPT ![L] = Append(@,
                              Row(IF target_service = "log10" THEN "finished"
                                  ELSE "bq_finish",
                                  IF target_service = "log10" THEN completionID[L] ELSE 0,
                                  answer = "ok", "", "", <<>>, 0,
                                  FinishedResponse(output[L])))]
    /\ Return(L, WrapperReturnValue(output[L]))
    /\ UNCHANGED <<target_service, mainOp, sessionVars, scanVars, call, calls, entered,
                   result_queue, completionID, wpc, wcid, fcall>>

\* ----------------------------------------------------------------- workers
\* Lines 82-87: POST /api/completions and res.json()['completionID'].
\* A caller's keyword named completion_url replaces the URL: the request raises.
LogAsyncCreate(L) ==
    /\ wpc[L] = "create"
    /\ IF Overridden(CallArgs, "completion_url")
       THEN /\ wpc' = [wpc EXCEPT ![L] = "dead"]
            /\ UNCHANGED <<wcid, sent>>
       ELSE \E answer \in {"ok", "error"} :
            /\ sent' = [sent EXCEPT ![L] = Append(@,
                          Row("create", 0, answer = "ok", "", "", <<>>, 0, <<>>))]
            /\ IF answer = "ok"
               THEN /\ wcid' = [wcid EXCEPT ![L] = BackendCompletionId(calls, L)]
                    /\ wpc' = [wpc EXCEPT ![L] = "started"]
               ELSE /\ wpc' = [wpc EXCEPT ![L] = "dead"]
                    /\ UNCHANGED wcid
    /\ UNCHANGED <<target_service, mainOp, sessionVars, scanVars, call, calls, entered, pc, output,
                   result_queue, completionID, logged, fcall, result>>

\* Lines 88-112: the 'started' row and its request.  json.dumps(kwargs)
\* raises on an unserialisable keyword value.
LogAsyncStarted(L) ==
    /\ wpc[L] = "started"
    /\ IF ~DictSerializable(LogKwargs(CallArgs))
       THEN /\ wpc' = [wpc EXCEPT ![L] = "dead"]
            /\ sent' = sent
       ELSE \E answer \in {"ok", "error"} :
            /\ sent' = [sent EXCEPT ![L] = Append(@,
                          Row(IF target_service = "log10" THEN "started" ELSE "bq_start",
                              IF target_service = "log10" THEN wcid[L] ELSE 0,
                              answer = "ok", WorkerFuncModule(CallArgs),
                              WorkerFuncQualname(call.ref, CallArgs),
                              StartedRequest(LogKwargs(CallArgs)),
                              StartedSessionId(sessionID, entered[L]), <<>>))]
            /\ wpc' = [wpc EXCEPT ![L] =
                          IF answer = "ok" \/ target_service = "bigquery"
                          THEN "put" ELSE "dead"]
    /\ UNCHANGED <<target_service, mainOp, sessionVars, scanVars, call, calls, entered, pc, output,
                   result_queue, completionID, logged, wcid, fcall, result>>

\* Line 118: result_queue.put(result); had a caller's keyword named
\* result_queue replaced the queue, .put would not reach the wrapper's queue.
RunAsyncPut(L) ==
    /\ wpc[L] = "put"
    /\ IF Overridden(CallArgs, "result_queue")
       THEN /\ wpc' = [wpc EXCEPT ![L] = "dead"]
            /\ result_queue' = result_queue
       ELSE /\ wpc' = [wpc EXCEPT ![L] = "done"]
            /\ result_queue' = [result_queue EXCEPT ![QueueOf(L)] = QueuePut(@, wcid[L])]
    /\ UNCHANGED <<target_service, mainOp, sessionVars, scanVars, call, calls, entered, pc, output,
                   completionID, logged, wcid, sent, fcall, result>>

MainStep ==
    \/ WrapperCallOriginal
    \/ \E L \in Layers : WrapperSpawn(L) \/ WrapperCallInner(L)
                           \/ WrapperPoll(L) \/ WrapperFinish(L)

WorkerStep(L) == LogAsyncCreate(L) \/ LogAsyncStarted(L) \/ RunAsyncPut(L)

Next ==
    \/ EnterSession
    \/ ExitSession
    \/ Instrument
    \/ Call
    \/ Forget
    \/ MainStep
    \/ \E L \in Layers : WorkerStep(L)

Spec == Init /\ [][Next]_vars

\* The main thread instruments the module and makes calls while a second
\* thread enters scoped sessions.
NextRace ==
    \/ OtherThreadEntersSession
    \/ Instrument
    \/ Call
    \/ Forget
    \/ MainStep
    \/ \E L \in Layers : WorkerStep(L)

RaceSpec == Init /\ [][NextRace]_vars

\* The threads are scheduled fairly: a thread that can take a step takes it.
FairSpec ==
    /\ Spec
    /\ WF_vars(MainStep)
    /\ \A L \in Layers : WF_vars(WorkerStep(L))

\* ------------------------------------------------------------------ claims
FReturned == fcall.outcome \in {"value", "object"}

\* What frame L returned to its caller (defined once pc[L] = "returned").
FrameReturn(L) == IF L = call.layers THEN result.val ELSE output[L + 1]

StartAttempts(L) == Count(L, "started") + Count(L, "bq_start")
FinishAttempts(L) == Count(L, "finished") + Count(L, "bq_finish")

SomeRequestFailed == \E L \in Layers : \E i \in 1..Len(sent[L]) : ~sent[L][i].ok

\* C1: pass-through.  Whenever the top-level wrapper has returned and the
\* original callable did not raise, the original ran exactly once, with
\* exactly the caller's positional and keyword arguments, and the value
\* returned is the value it returned, whatever the backend requests did.
C1_PassThrough ==
    (result.st = "returned" /\ fcall.outcome \notin {"raise", "raise_base"}) =>
        /\ fcall.n = 1
        /\ fcall.args = call.args
        /\ fcall.kwargs = call.kwargs
        /\ result.val = FReturn(fcall.outcome, CallArgs)

C1_Witness ==
    /\ result.st = "returned"
    /\ fcall.outcome = "value"
    /\ call.layers = 2
    /\ call.args = <<IntV(2), IntV(3)>>
    /\ result.val = IntV(5)
    /\ SomeRequestFailed

\* C2: when the start phase fails in the worker thread, the wrapper, once
\* the wrapped callable has returned, still returns to its caller.
C2_StartFailureStillReturns ==
    \A L \in Layers : [](wpc[L] = "dead" /\ pc[L] = "poll" => <>(pc[L] = "returned"))

\* C3: count invariant.  Once an invocation can do nothing more (its worker
\* has ended, its wrapper has returned, has let a BaseException through, or
\* polls an empty queue), exactly one start-phase record and exactly one
\* finish-phase record have been attempted for it.
Settled(L) ==
    /\ wpc[L] \in {"done", "dead"}
    /\ \/ pc[L] \in {"returned", "propagated"}
       \/ pc[L] = "poll" /\ result_queue[L] = <<>>

C3_CountInvariant ==
    \A L \in Layers : Settled(L) => StartAttempts(L) = 1 /\ FinishAttempts(L) = 1

\* C4: when the wrapped callable raises an Exception, the wrapper around it
\* catches it in its blanket handler (which logs), lets nothing propagate and
\* returns None, the initial value of output.
C4_RaiseReturnsNone ==
    fcall.outcome = "raise" =>
        /\ pc[1] = "returned"
        /\ FrameReturn(1) = NoneV
        /\ logged[1] >= 1
        /\ result.st # "propagated"
        /\ mainOp.raised = "none"
        /\ (call.layers = 1 => result.st = "returned")
        /\ (result.st = "returned" => result.val = NoneV)

C4_Witness ==
    /\ fcall.outcome = "raise"
    /\ result.st = "returned"
    /\ result.val = NoneV
    /\ call.args = <<IntV(2), IntV(3)>>

\* C5: a failure of the finish phase (the 'finished' request or the
\* warehouse insert raising, json.dumps of the response or of the stack trace
\* raising) does not propagate and does not change the value returned: the
\* wrapper returns the output the wrapped callable produced.
FinishPhaseFailed(L) ==
    pc[L] = "returned" /\ completionID[L] # 0 /\ logged[L] > 0

C5_FinishFailureContained ==
    \A L \in Layers : FinishPhaseFailed(L) =>
        /\ FrameReturn(L) = output[L]
        /\ (FReturned => output[L] = FReturn(fcall.outcome, CallArgs))
        /\ result.st # "propagated"
        /\ mainOp.raised = "none"

C5_Witness ==
    /\ FinishPhaseFailed(1)
    /\ call.layers = 1
    /\ result.st = "returned"
    /\ result.val = IntV(5)
    /\ \E i \in 1..Len(sent[1]) : sent[1][i].kind = "finished" /\ ~sent[1][i].ok

\* C6: the 'request' field of every 'started' record holds the arguments of
\* the invocation, positional as well as keyword, and the record's module
\* and qualified name are those of the wrapped callable.
Tokens(seq) == {seq[i] : i \in 1..Len(seq)}

C6_StartedRecordCarriesArguments ==
    \A L \in Layers : \A i \in 1..Len(sent[L]) :
        sent[L][i].kind \in {"started", "bq_start"} =>
            /\ \A j \in 1..Len(call.args) :
                 call.args[j].t = "int" =>
                     JsonScalar(call.args[j]) \in Tokens(sent[L][i].request)
            /\ \A j \in 1..Len(call.kwargs) :
                 call.kwargs[j].name \in Tokens(sent[L][i].request)
            /\ sent[L][i].orig_module = "mod"
            /\ sent[L][i].orig_qualname = call.ref

Instrumented(path) == Lookup(moduleDict, classDict, path)

\* The callables of the module of C7 and C8.
BasicPaths == {path \in CallPaths : Lookup(BasicModule, BasicClasses, path).ref # "missing"}

\* C7: after log10(module) every callable of the module (the top-level
\* function, the instance method, the classmethod, the nested class's
\* method) is an intercepting version, the classmethod is still a
\* classmethod and the instance methods are still functions, so that each is
\* called with the receiver the original is written for; and a call that
\* returns gives the value the original computes from the caller's arguments.
C7_InstrumentReplacesAll ==
    (moduleShape = "basic" /\ passes >= 1 /\ ~scanRaised) =>
        /\ \A path \in BasicPaths :
             /\ Instrumented(path).layers >= 1
             /\ Instrumented(path).kind =
                  (IF path.name = "cm" THEN "classmethod" ELSE "function")
        /\ (call.layers >= 1 => ReceiverOf(call.args) = Receiver(call.ref))
        /\ (result.st = "returned" /\ fcall.outcome = "value" =>
                result.val = FValue(CallArgs))

C7_Witness ==
    /\ passes = 1
    /\ call.ref = "D.cm"
    /\ call.args = <<ClsV, IntV(2), IntV(3)>>
    /\ result.st = "returned"
    /\ fcall.outcome = "value"
    /\ result.val = IntV(5)

\* C8: after two log10(module) passes every callable carries two
\* interception layers, and a call all of whose backend requests succeed
\* runs the original once, produces one start-phase and one finish-phase
\* record per layer, two of each, and returns the original's value.
CleanRun == \A L \in Layers : logged[L] = 0 /\ \A i \in 1..Len(sent[L]) : sent[L][i].ok

C8_DoubleInstrumentationDoubleLogs ==
    /\ (moduleShape = "basic" /\ passes = 2 /\ ~scanRaised) =>
           \A path \in BasicPaths : Instrumented(path).layers = 2
    /\ (moduleShape = "basic" /\ passes = 2 /\ ~Idle) => call.layers = 2
    /\ (call.layers = 2 /\ result.st = "returned" /\ fcall.outcome = "value" /\ CleanRun) =>
           /\ fcall.n = 1
           /\ StartAttempts(1) = 1 /\ StartAttempts(2) = 1
           /\ FinishAttempts(1) = 1 /\ FinishAttempts(2) = 1
           /\ result.val = FValue(CallArgs)

C8_Witness ==
    /\ passes = 2
    /\ call.layers = 2
    /\ result.st = "returned"
    /\ fcall.outcome = "value"
    /\ CleanRun
    /\ StartAttempts(1) + StartAttempts(2) = 2
    /\ FinishAttempts(1) + FinishAttempts(2) = 2
    /\ fcall.n = 1

\* C9: the current session id is always the most recently created one: a
\* successful scope entry replaces it by the fresh id, and no exit, normal or
\* by an exception, restores an earlier id; an exception that leaves a scope
\* is raised to the caller.
C9_SessionNotRestored ==
    /\ sessionID = sessionsCreated
    /\ \A i \in 1..Len(scopes) : scopes[i] < sessionID
    /\ (mainOp.op = "enter" /\ mainOp.how = "ok") =>
           (scopes # <<>> /\ mainOp.raised = "none")
    /\ (mainOp.op = "exit" /\ mainOp.how = "exception") => mainOp.raised = "BodyException"
    /\ (mainOp.op = "exit" /\ mainOp.how = "normal") => mainOp.raised = "none"

C9_Witness ==
    /\ mainOp.op = "exit"
    /\ mainOp.how = "exception"
    /\ scopes = <<1>>
    /\ sessionID = 3

\* C10: a scope entry whose session creation fails raises the error to the
\* caller after a single request, opens no scope and leaves the current
\* session id as it was.
FailedEntryStep ==
    mainOp' # mainOp /\ mainOp'.op = "enter" /\ mainOp'.how # "ok"

C10_FailedEntryLeavesSession ==
    [][FailedEntryStep =>
          /\ mainOp'.raised = "SessionCreationError"
          /\ mainOp'.requests = 1
          /\ sessionID' = sessionID
          /\ sessionsCreated' = sessionsCreated
          /\ scopes' = scopes]_vars

C10_Witness ==
    /\ mainOp.op = "enter"
    /\ mainOp.how = "unreachable"
    /\ mainOp.raised = "SessionCreationError"
    /\ sessionID = 2
    /\ scopes = <<1>>

IsStart(r) == r.kind \in {"started", "bq_start"}
IsFinish(r) == r.kind \in {"finished", "bq_finish"}

\* func, as frame L calls it, has returned: the original callable for frame
\* 1, the wrapper of frame L - 1 otherwise.
FuncReturned(L) ==
    IF L = 1 THEN fcall.n = 1 /\ fcall.outcome \in {"value", "object", "raise"}
    ELSE pc[L - 1] = "returned"

\* C11: whenever an invocation has issued its finish-phase request, its
\* callable has returned, the completion identifier its worker obtained has
\* been received from the queue, and its start-phase request was sent before.
C11_FinishAfterCallAndId ==
    \A L \in Layers : \A i \in 1..Len(sent[L]) :
        IsFinish(sent[L][i]) =>
            /\ FuncReturned(L)
            /\ completionID[L] # 0
            /\ completionID[L] = wcid[L]
            /\ wpc[L] = "done"
            /\ \E j \in 1..(i - 1) :
                 /\ IsStart(sent[L][j])
                 /\ (target_service = "log10" => sent[L][j].ok)

C11_Witness ==
    /\ call.layers = 2
    /\ pc[1] = "returned"
    /\ pc[2] = "incall" \/ pc[2] = "poll"
    /\ wpc[2] = "create"
    /\ \E i \in 1..Len(sent[1]) : IsFinish(sent[1][i])

\* C12: every invocation that has returned and whose start phase yielded a
\* completion identifier has issued its finish-phase request, also when the
\* wrapped callable raised.
C12_FinishedOnceReturned ==
    \A L \in Layers :
        (pc[L] = "returned" /\ wpc[L] = "done") => FinishAttempts(L) = 1

\* C13 as claimed: the session id on every 'started' record is the global
\* session id at the moment the wrapper of that invocation was entered.
C13_SessionAtWrapperEntry ==
    \A L \in Layers : \A i \in 1..Len(sent[L]) :
        IsStart(sent[L][i]) => sent[L][i].session_id = entered[L]

\* C13 as amended: the session id on a 'started' record is the global
\* session id at the moment the worker builds the record, after its
\* completion-creation request has returned.
StartedRowSent(L) ==
    /\ Len(sent'[L]) = Len(sent[L]) + 1
    /\ IsStart(sent'[L][Len(sent'[L])])

C13_SessionWhenRowBuilt ==
    [][\A L \in Layers :
          StartedRowSent(L) => sent'[L][Len(sent'[L])].session_id = sessionID]_vars

C13_Witness ==
    \E L \in Layers : \E i \in 1..Len(sent[L]) :
        /\ IsStart(sent[L][i])
        /\ sent[L][i].session_id = sessionID
        /\ sent[L][i].session_id # entered[L]


\* ---------------------------------------------------------------- claim C14
\* The identifiers frame L's hand-off has seen: queued or already consumed.
HandedOff(L) ==
    Len(result_queue[L]) + (IF completionID[L] # 0 THEN 1 ELSE 0)

\* C14: with several invocations in flight (nested wrappers, each with its
\* own worker), every worker puts at most one completion identifier into its
\* own invocation's queue, the wrapper consumes at most one, what it holds is
\* what its own worker obtained, and every 'finished' request is addressed to
\* the identifier of the same invocation's start phase, never to another's.
C14_CorrelationPerInvocation ==
    \A L \in Layers :
        /\ HandedOff(L) <= 1
        /\ HandedOff(L) = 1 => wpc[L] = "done"
        /\ result_queue[L] # <<>> => Head(result_queue[L]) = wcid[L]
        /\ completionID[L] # 0 => completionID[L] = wcid[L]
        /\ \A i \in 1..Len(sent[L]) :
              sent[L][i].kind = "finished" =>
                  /\ sent[L][i].cid = wcid[L]
                  /\ \E j \in 1..(i - 1) :
                        sent[L][j].kind = "started" /\ sent[L][j].cid = sent[L][i].cid
                  /\ \A K \in Layers \ {L} : wcid[K] # sent[L][i].cid

\* Two nested invocations were in flight together and each has sent its
\* 'finished' request.
C14_Witness ==
    /\ call.layers = 2
    /\ Count(1, "finished") = 1
    /\ Count(2, "finished") = 1
    /\ wcid[1] # wcid[2]


\* ---------------------------------------------------------------- claim C15
\* Both backend requests of frame L's start phase have returned without raising.
StartRequestsReturned(L) ==
    /\ \E i \in 1..Len(sent[L]) : sent[L][i].kind = "create" /\ sent[L][i].ok
    /\ \E i \in 1..Len(sent[L]) : IsStart(sent[L][i]) /\ sent[L][i].ok

\* C15: liveness of the rendezvous.  When the wrapped callable has returned
\* (the wrapper is at its poll loop) and both backend requests of the start
\* phase have returned without raising, then, the threads being scheduled
\* fairly, the wrapper leaves the poll loop, runs its finish phase and
\* returns to its caller.
C15_RendezvousTerminates ==
    \A L \in Layers :
        [](pc[L] = "poll" /\ StartRequestsReturned(L) => <>(pc[L] = "returned"))


\* ---------------------------------------------------------------- claim C16
\* C16: with the warehouse backend selected, the start phase of an
\* invocation is a single insert and sends no request to the primary service
\* for a completion identifier.
C16_WarehouseStartIsOneInsert ==
    target_service = "bigquery" =>
        \A L \in Layers :
            /\ Count(L, "create") = 0
            /\ Count(L, "bq_start") <= 1


\* ---------------------------------------------------------------- claim C17
Names(d) == [i \in 1..Len(d) |-> d[i].name]

\* The kinds of member log10() is meant to act on.
Eligible == {"function", "classmethod", "class"}

\* Every item of d whose value is not an eligible member is the same in e.
SameOthers(d, e) ==
    \A i \in 1..Len(d) : d[i].val.kind \notin Eligible => e[i] = d[i]

InstrumentStep == mainOp'.op = "instrument" /\ passes' = passes + 1

\* C17: a log10(module) pass only rebinds existing names.  The module and
\* every class have the same attribute names, in the same order, after the
\* pass as before, and every member that is not a function, a classmethod
\* or a class (data attributes, static methods) is bound to what it was
\* bound to; also when the pass ends in an exception.
C17_OnlyRebindsEligible ==
    [][InstrumentStep =>
          /\ Names(moduleDict') = Names(moduleDict)
          /\ SameOthers(moduleDict, moduleDict')
          /\ \A c \in ClassIds :
                /\ Names(classDict'[c]) = Names(classDict[c])
                /\ SameOthers(classDict[c], classDict'[c])]_vars

\* After a pass the static method and the data attributes are what they
\* were while the classmethod next to them has been intercepted.
C17_Witness ==
    /\ moduleShape = "basic"
    /\ passes = 1
    /\ Find(classDict["D"], "cm").layers = 1
    /\ Find(classDict["D"], "sm") = Member("staticmethod", "D.sm", 0)
    /\ Find(classDict["C"], "x") = Member("data", "C.x", 0)
    /\ Find(moduleDict, "VERSION") = Member("data", "VERSION", 0)

\* ---------------------------------------------------------------- claim C18
\* C18: after a single log10(module) pass every function and classmethod of
\* the module and of its classes carries exactly one interception layer, so
\* a call runs exactly one wrapper; also when a class is reachable through
\* two names.
C18_OnePassOneLayer ==
    (passes = 1 /\ ~scanRaised) =>
        /\ \A i \in 1..Len(moduleDict) :
              moduleDict[i].val.kind = "function" => moduleDict[i].val.layers = 1
        /\ \A c \in ClassIds : \A i \in 1..Len(classDict[c]) :
              classDict[c][i].val.kind \in {"function", "classmethod"} =>
                  classDict[c][i].val.layers = 1
        /\ (~Idle => call.layers = 1)

\* ---------------------------------------------------------------- claim C19
\* C19: log10(module) runs to its end on every module, also when the
\* class-attribute graph has a cycle: no pass ends in RecursionError.
C19_InstrumentTerminates ==
    mainOp.op = "instrument" => mainOp.raised = "none" /\ ~scanRaised

====
